---- MODULE Spec2Model ----
(***************************************************************************)
(* Model of tress' feed synchronisation pipeline (src/main.rs): the sync   *)
(* queue, the timer task, the add_feed and create_push_subscription        *)
(* handlers and run_sync_worker, with the three tables of the migrations.  *)
(* Every await of the worker is one step; a failed unwrap() is a panic     *)
(* that ends the task (pc = "dead") and drops the receiver.                *)
(***************************************************************************)
EXTENDS Integers, Sequences, FiniteSets, TLC

\* ------------------------------------------------------------- bounds
MaxTicks == 1
MaxAddFeed == 2      \* add_feed requests modelled
MaxRegs == 2         \* create_push_subscription requests modelled
MaxInsertFaults == 1 \* inserts of a post that storage fails without a conflict

\* backon's ExponentialBuilder::default(): at most 3 retries after the first try
MaxTimes == 3

FeedUrls == {"fa", "fb"}
Endpoints == {"e1", "e2"}
\* What meta[property="og:image"] selects in the page of a post url: the page of
\* u1 carries the tag, the page of u2 does not.
PageImage(url) == IF url = "u1" THEN "img" ELSE "none"
\* The credentials a registration carries: keys.auth and keys.p256dh.
Keys == {[auth |-> "a1", p256dh |-> "p1"], [auth |-> "a2", p256dh |-> "p2"]}
NoLink == "nolink"

\* ------------------------------------------------------------- documents
\* Atom entries: id and links (rel, mime type, href); RSS items: link.
AtomById == [id |-> "u1", links |-> <<>>]
AtomByFirst == [id |-> "x1", links |-> <<[rel |-> "self", type |-> "none", href |-> "u1"]>>]
AtomByHtml ==
    [id |-> "x2",
     links |-> <<[rel |-> "alternate", type |-> "none", href |-> "u1"],
                 [rel |-> "alternate", type |-> "text/html", href |-> "u2"]>>]

\* What a server may answer: the result of each of the two parsers on the
\* bytes, Ok with the entries read or Err with the parser's error.
BodyAtom ==
    [atomOk |-> TRUE, atom |-> <<AtomById, AtomByFirst, AtomByHtml>>, atomErr |-> "none",
     rssOk |-> FALSE, rss |-> <<>>, rssErr |-> "rss_root"]
BodyRss ==
    [atomOk |-> FALSE, atom |-> <<>>, atomErr |-> "atom_root",
     rssOk |-> TRUE, rss |-> <<[link |-> NoLink], [link |-> "u2"]>>, rssErr |-> "none"]
BodyBad ==
    [atomOk |-> FALSE, atom |-> <<>>, atomErr |-> "atom_xml",
     rssOk |-> FALSE, rss |-> <<>>, rssErr |-> "rss_xml"]
Bodies == {BodyAtom, BodyRss, BodyBad}

NetErr ==
    [fmt |-> "Err", entries |-> <<>>, why |-> "transport",
     atomErr |-> "none", rssErr |-> "none"]

ParseFeedRssFirst(body) ==
    IF body.rssOk
    THEN [fmt |-> "Rss", entries |-> body.rss, why |-> "ok",
          atomErr |-> "none", rssErr |-> "none"]
    ELSE IF body.atomOk
    THEN [fmt |-> "Atom", entries |-> body.atom, why |-> "ok",
          atomErr |-> "none", rssErr |-> "none"]
    ELSE [fmt |-> "Err", entries |-> <<>>, why |-> "parse",
          atomErr |-> body.atomErr, rssErr |-> body.rssErr]

\* fetch_feed's parse: Atom first, RSS second, else FeedParseError {atom, rss}.
ParseFeed(body) ==
    IF body.atomOk
    THEN [fmt |-> "Atom", entries |-> body.atom, why |-> "ok",
          atomErr |-> "none", rssErr |-> "none"]
    ELSE IF body.rssOk
    THEN [fmt |-> "Rss", entries |-> body.rss, why |-> "ok",
          atomErr |-> "none", rssErr |-> "none"]
    ELSE [fmt |-> "Err", entries |-> <<>>, why |-> "parse",
          atomErr |-> body.atomErr, rssErr |-> body.rssErr]

\* Every result fetch_feed can return for a url.
FetchFeedResults == {NetErr} \cup {ParseFeed(b) : b \in Bodies}

\* The first index of a set of indices: Iterator::find.
First(idx) == CHOOSE i \in idx : \A j \in idx : i <= j

ContentUrlAltFirst(entry) ==
    LET links == entry.links
        alt == {i \in 1..Len(links) : links[i].rel = "alternate"}
    IN IF alt # {} THEN links[First(alt)].href
       ELSE IF Len(links) > 0 THEN links[1].href
       ELSE entry.id

\* The post url of an Atom entry (link priority); type "none" is no mime type.
ContentUrl(entry) ==
    LET links == entry.links
        html == {i \in 1..Len(links) :
                    links[i].rel = "alternate" /\ links[i].type = "text/html"}
        alt == {i \in 1..Len(links) : links[i].rel = "alternate"}
    IN IF html # {} THEN links[First(html)].href
       ELSE IF alt # {} THEN links[First(alt)].href
       ELSE IF Len(links) > 0 THEN links[1].href
       ELSE entry.id

\* The url the loop body inserts for an entry, NoLink for an RSS item without link.
EntryUrl(fmt, entry) == IF fmt = "Atom" THEN ContentUrl(entry) ELSE entry.link

\* ------------------------------------------------------------- state
VARIABLES
    feeds,       \* table feeds: set of [id, url]
    posts,       \* table posts: set of [id, feed_id, url, thumbnail]
    subs,        \* table push_subscriptions: set of [id, endpoint, auth_key, p256dh_key]
    nextFeedId, nextPostId, nextSubId,   \* fresh ids (Uuid::new_v4, pk_auto)
    queue,       \* the unbounded channel: sequence of SyncRequest
    ticks, timer,          \* the timer task: iterations done, "run" or "dead"
    adds,        \* add_feed calls made
    sending,     \* add_feed handlers between insert and send: their feed ids
    regs,        \* create_push_subscription calls made
    faults,      \* inserts of a post failed by storage so far
    pc,          \* run_sync_worker's position
    req,         \* the request being processed
    feedsTodo,   \* the feeds of the request not yet synced (head: current)
    doc,         \* the parsed feed: [fmt, entries] with the entries left
    post,        \* the post just inserted: [id, url]
    attempt,     \* retries of fetch_page_content done for post
    image,       \* the og:image found
    subsTodo,    \* the subscriptions of the fan-out not yet sent to
    \* history, read by the properties only
    nextSeq,     \* send order: the next request's number
    started,     \* the requests dequeued, in order
    processing,  \* the requests in the processing state
    panicAt,     \* the unwrap() that ended the worker
    pushes,      \* sends attempted: [post, sub, seq]
    lastRes,     \* what the send just made returned ("none": the last step was no send)
    firstSync,   \* feed id -> the first request that synced it (0: none)
    fetched,     \* the document of the feed sync in progress, as fetched
    added,       \* rows inserted by the feed sync in progress
    failed,      \* an insert of the feed sync in progress failed without conflict
    prevSync,    \* the last feed sync completed: [feed, doc, clean]
    gone,        \* subscriptions answered 410 in the request: [id, endpoint]
    rereg,       \* endpoints of gone registered again since their 410
    completed,   \* the last request dequeued was processed to its end
    listed,      \* ids of the subscriptions the fan-out in progress read
    replied,     \* feed ids add_feed answered with the Feed row
    enriched,    \* ids of the posts whose thumbnail update has completed
    madeBy,      \* the posts inserted in this run: [post, seq, notify] of the request
    arg, out     \* the input and the result of a function applied on its own

dbVars == <<feeds, posts, subs>>
idVars == <<nextFeedId, nextPostId, nextSubId>>
httpVars == <<ticks, timer, adds, sending, regs, faults>>
localVars == <<req, feedsTodo, doc, post, attempt, image, subsTodo>>
feedHist == <<fetched, added, failed>>
syncHist == <<firstSync, prevSync>>
histVars == <<nextSeq, started, processing, panicAt, pushes, lastRes, gone, rereg, completed>>
obsVars == <<listed, replied, enriched, madeBy>>
fnVars == <<arg, out>>
vars == <<dbVars, idVars, queue, httpVars, pc, localVars, feedHist, syncHist, histVars,
          obsVars, fnVars>>

NoReq == [scope |-> "none", feed |-> 0, notify |-> FALSE, seq |-> 0]
NoDoc == [fmt |-> "none", entries |-> <<>>]
NoPost == [id |-> 0, url |-> "none"]
NoPrev == [feed |-> 0, doc |-> NoDoc, clean |-> FALSE]
NoArg == <<>>

\* Rows of a table as find().all() lists them: by rowid, the order of insertion.
RECURSIVE ById(_)
ById(rows) ==
    IF rows = {} THEN <<>>
    ELSE LET r == CHOOSE x \in rows : \A y \in rows : x.id <= y.id
         IN <<r>> \o ById(rows \ {r})

\* ------------------------------------------------------------- the channel
\* UnboundedSender::send: fails once the receiver is dropped.
Closed == pc = "dead"

Enqueue(q, m) == Append(q, m)

DequeueLast(q) == [msg |-> q[Len(q)], rest |-> SubSeq(q, 1, Len(q) - 1)]

\* UnboundedReceiver::recv: the oldest message.
Dequeue(q) == [msg |-> Head(q), rest |-> Tail(q)]

\* The process right after main has spawned its tasks, whatever the tables
\* feeds and posts and the channel hold: the worker at recv, nothing done yet.
Booted ==
    /\ subs = {} /\ nextSubId = 1
    /\ ticks = 0 /\ timer = "run"
    /\ adds = 0 /\ sending = {}
    /\ regs = 0 /\ faults = 0
    /\ pc = "waiting"
    /\ req = NoReq /\ feedsTodo = <<>> /\ doc = NoDoc /\ post = NoPost
    /\ attempt = 0 /\ image = "none" /\ subsTodo = <<>>
    /\ started = <<>> /\ processing = {} /\ panicAt = "none"
    /\ pushes = {} /\ lastRes = "none"
    /\ firstSync = [i \in 1..(MaxAddFeed + 1) |-> 0]
    /\ fetched = NoDoc /\ added = 0 /\ failed = FALSE
    /\ prevSync = NoPrev
    /\ gone = {} /\ rereg = {} /\ completed = FALSE
    /\ listed = {} /\ replied = {} /\ enriched = {} /\ madeBy = {}

\* The first run of the process: empty tables, an empty channel.
Start ==
    /\ Booted
    /\ feeds = {} /\ posts = {}
    /\ nextFeedId = 1 /\ nextPostId = 1
    /\ queue = <<>> /\ nextSeq = 1

Init == Start /\ arg = NoArg /\ out = NoArg

\* ------------------------------------------------------------- the timer task
TimerRequest(seq) == [scope |-> "All", feed |-> 0, notify |-> TRUE, seq |-> seq]

\* One iteration of the loop of the timer task: send().unwrap(), then sleep.
TimerTick ==
    /\ timer = "run" /\ ticks < MaxTicks
    /\ ticks' = ticks + 1
    /\ IF Closed
       THEN timer' = "dead" /\ UNCHANGED <<queue, nextSeq>>
       ELSE /\ queue' = Enqueue(queue, TimerRequest(nextSeq))
            /\ nextSeq' = nextSeq + 1
            /\ UNCHANGED timer
    /\ UNCHANGED <<dbVars, idVars, adds, sending, replied, regs, faults, pc, localVars, listed, feedHist, syncHist,
                   started, processing, panicAt, pushes, enriched, madeBy, fnVars, lastRes, gone, rereg, completed>>

\* ------------------------------------------------------------- add_feed
AddFeedRequest(id, seq) == [scope |-> "Feed", feed |-> id, notify |-> FALSE, seq |-> seq]

\* feeds.url is unique.
InsertFeed(tbl, row) ==
    IF \E r \in tbl : r.url = row.url
    THEN [res |-> "conflict", tbl |-> tbl]
    ELSE [res |-> "ok", tbl |-> tbl \cup {row}]

\* The urls a request may name: a registered one or, the urls not yet registered
\* being interchangeable, the first of them.
RequestUrls ==
    LET used == {f.url : f \in feeds}
        fresh == FeedUrls \ used
    IN used \cup IF "fa" \in fresh THEN {"fa"} ELSE fresh

\* add_feed up to the insert of the Feed row: fetch_feed(url) returned res and
\* dbOk = FALSE is a storage failure; either failure answers 500.
AddFeedInsert(url, res, dbOk) ==
    /\ adds < MaxAddFeed
    /\ url \in RequestUrls
    /\ adds' = adds + 1
    /\ LET ins == InsertFeed(feeds, [id |-> nextFeedId, url |-> url])
       IN IF res.fmt # "Err" /\ dbOk /\ ins.res = "ok"
          THEN /\ feeds' = ins.tbl
               /\ nextFeedId' = nextFeedId + 1
               /\ sending' = sending \cup {nextFeedId}
          ELSE UNCHANGED <<feeds, nextFeedId, sending>>
    /\ UNCHANGED <<replied, posts, subs, nextPostId, nextSubId, queue, ticks, timer, regs,
                   faults, pc, localVars, listed, feedHist, syncHist, histVars, enriched, madeBy, fnVars>>

AddFeedReplyUnwrap(closed) == IF closed THEN "panic" ELSE "ok"

\* What add_feed answers after the send: the send's result is dropped
\* (let _ =), the answer is Ok(Json(FeedResponse)) either way.
AddFeedReply(closed) == "ok"

\* add_feed after the insert: let _ = sync_sender.send(..), then the response.
AddFeedSend(id) ==
    /\ id \in sending
    /\ IF Closed
       THEN UNCHANGED <<queue, nextSeq>>
       ELSE /\ queue' = Enqueue(queue, AddFeedRequest(id, nextSeq))
            /\ nextSeq' = nextSeq + 1
    /\ sending' = sending \ {id}
    /\ replied' = IF AddFeedReply(Closed) = "ok" THEN replied \cup {id} ELSE replied
    /\ UNCHANGED <<dbVars, idVars, ticks, timer, adds, regs, faults, pc, localVars, listed, feedHist, syncHist,
                   started, processing, panicAt, pushes, enriched, madeBy, fnVars, lastRes, gone, rereg, completed>>

\* ------------------------------------------------------------- create_push_subscription
\* The row a registration inserts.
SubRow(id, endpoint, keys) ==
    [id |-> id, endpoint |-> endpoint, auth_key |-> keys.auth, p256dh_key |-> keys.p256dh]

UpsertReplaceRow(tbl, id, endpoint, keys) ==
    {r \in tbl : r.endpoint # endpoint} \cup {SubRow(id, endpoint, keys)}

\* insert .. on conflict (endpoint) do update set auth_key, p256dh_key.
Upsert(tbl, id, endpoint, keys) ==
    IF \E r \in tbl : r.endpoint = endpoint
    THEN {IF r.endpoint = endpoint
          THEN [r EXCEPT !.auth_key = keys.auth, !.p256dh_key = keys.p256dh]
          ELSE r : r \in tbl}
    ELSE tbl \cup {SubRow(id, endpoint, keys)}

\* The credentials a request may carry: stored ones or, those not stored being
\* interchangeable, the first of them.
RequestKeys ==
    LET used == {[auth |-> r.auth_key, p256dh |-> r.p256dh_key] : r \in subs}
        fresh == Keys \ used
        first == [auth |-> "a1", p256dh |-> "p1"]
    IN used \cup IF first \in fresh THEN {first} ELSE fresh

CreatePushSubscription(endpoint, keys) ==
    /\ regs < MaxRegs
    /\ keys \in RequestKeys
    /\ regs' = regs + 1
    /\ subs' = Upsert(subs, nextSubId, endpoint, keys)
    /\ nextSubId' = IF \E r \in subs : r.endpoint = endpoint
                    THEN nextSubId ELSE nextSubId + 1
    /\ rereg' = rereg \cup ({endpoint} \cap {g.endpoint : g \in gone})
    /\ UNCHANGED <<feeds, posts, nextFeedId, nextPostId, queue, ticks, timer, adds, sending, replied,
                   faults, pc, localVars, listed, feedHist, syncHist,
                   nextSeq, started, processing, panicAt, pushes, enriched, madeBy, fnVars, lastRes, gone, completed>>

\* ------------------------------------------------------------- run_sync_worker
WorkerNotDead == pc # "dead"

\* The worker is at receiver.recv().await, between two requests.
WorkerIdle == pc = "waiting"

\* A failed unwrap(): the task ends; its locals and the receiver, with what it
\* holds, are dropped.
Panic(where) ==
    /\ pc' = "dead"
    /\ panicAt' = where
    /\ queue' = <<>>
    /\ processing' = {}
    /\ req' = NoReq /\ feedsTodo' = <<>> /\ doc' = NoDoc /\ post' = NoPost
    /\ attempt' = 0 /\ image' = "none" /\ subsTodo' = <<>> /\ listed' = {}
    /\ fetched' = NoDoc /\ added' = 0 /\ failed' = FALSE
    /\ lastRes' = "none"

\* What a step that does not panic leaves alone.
NoPanic == lastRes' = "none" /\ UNCHANGED <<queue, processing, panicAt>>

\* while let Some(req) = receiver.recv().await
WorkerRecv ==
    /\ WorkerIdle
    /\ queue # <<>>
    /\ LET d == Dequeue(queue)
       IN /\ req' = d.msg
          /\ queue' = d.rest
          /\ started' = Append(started, d.msg.seq)
          /\ processing' = processing \cup {d.msg.seq}
    /\ pc' = "resolve"
    /\ gone' = {} /\ rereg' = {} /\ completed' = FALSE /\ lastRes' = "none"
    /\ UNCHANGED <<dbVars, idVars, httpVars, replied, feedsTodo, doc, post, attempt, image,
                   subsTodo, listed, feedHist, syncHist, nextSeq, panicAt, pushes, enriched, madeBy, fnVars>>

ResolveIgnoreScope(r, tbl) == ById(tbl)

\* The feeds a scope resolves to.
Resolve(r, tbl) ==
    IF r.scope = "All" THEN ById(tbl) ELSE ById({f \in tbl : f.id = r.feed})

\* let feeds = match req.scope {..}: the query, unwrapped.
WorkerResolve(dbOk) ==
    /\ pc = "resolve"
    /\ IF dbOk
       THEN /\ feedsTodo' = Resolve(req, feeds)
            /\ pc' = "fetch_feed"
            /\ NoPanic
            /\ UNCHANGED <<req, doc, post, attempt, image, subsTodo, listed, feedHist>>
       ELSE Panic("resolve")
    /\ UNCHANGED <<dbVars, idVars, httpVars, replied, syncHist, nextSeq, started, pushes, enriched, madeBy, fnVars,
                   gone, rereg, completed>>

\* for feed_model in feeds: fetch_feed(..).await.unwrap()
WorkerFetchFeed(res) ==
    /\ pc = "fetch_feed"
    /\ feedsTodo # <<>>
    /\ LET f == Head(feedsTodo).id
       IN firstSync' = IF firstSync[f] = 0 THEN [firstSync EXCEPT ![f] = req.seq]
                       ELSE firstSync
    /\ IF res.fmt = "Err"
       THEN Panic("fetch_feed")
       ELSE /\ doc' = [fmt |-> res.fmt, entries |-> res.entries]
            /\ fetched' = [fmt |-> res.fmt, entries |-> res.entries]
            /\ added' = 0 /\ failed' = FALSE
            /\ pc' = "entry"
            /\ NoPanic
            /\ UNCHANGED <<req, feedsTodo, post, attempt, image, subsTodo, listed>>
    /\ UNCHANGED <<dbVars, idVars, httpVars, replied, prevSync, nextSeq, started, pushes, enriched, madeBy, fnVars,
                   gone, rereg, completed>>

\* The end of the loop over the feeds: back to recv.
WorkerRequestDone ==
    /\ pc = "fetch_feed"
    /\ feedsTodo = <<>>
    /\ pc' = "waiting"
    /\ req' = NoReq
    /\ processing' = processing \ {req.seq}
    /\ completed' = TRUE /\ lastRes' = "none"
    /\ UNCHANGED <<dbVars, idVars, queue, httpVars, replied, feedsTodo, doc, post, attempt,
                   image, subsTodo, listed, feedHist, syncHist, nextSeq, started, panicAt,
                   pushes, enriched, madeBy, fnVars, gone, rereg>>

InsertPostNoUnique(tbl, row) == [res |-> "ok", tbl |-> tbl \cup {row}]

InsertPostReplace(tbl, row) ==
    IF \E r \in tbl : r.url = row.url
    THEN [res |-> "ok", tbl |-> {r \in tbl : r.url # row.url} \cup {row}]
    ELSE [res |-> "ok", tbl |-> tbl \cup {row}]

InsertPostUpsert(tbl, row) ==
    IF \E r \in tbl : r.url = row.url
    THEN [res |-> "ok",
          tbl |-> {IF r.url = row.url THEN [row EXCEPT !.id = r.id] ELSE r : r \in tbl}]
    ELSE [res |-> "ok", tbl |-> tbl \cup {row}]

\* posts.url is unique.
InsertPost(tbl, row) ==
    IF \E r \in tbl : r.url = row.url
    THEN [res |-> "conflict", tbl |-> tbl]
    ELSE [res |-> "ok", tbl |-> tbl \cup {row}]

\* The end of the loop body for the head entry (also its `continue`s).
EndEntry ==
    /\ doc' = [doc EXCEPT !.entries = Tail(@)]
    /\ pc' = "entry"
    /\ post' = NoPost /\ attempt' = 0 /\ image' = "none" /\ subsTodo' = <<>> /\ listed' = {}

AfterInsertNotifyFirst(res, notify) ==
    IF res = "ok" THEN (IF notify THEN "list_subs" ELSE "enrich") ELSE "entry"

AfterInsertEnrichOnConflict(res, notify) ==
    IF res \in {"ok", "conflict"} THEN "enrich" ELSE "entry"

AfterInsertStopOnError(res, notify) ==
    IF res = "ok" THEN "enrich" ELSE IF res = "conflict" THEN "entry" ELSE "fetch_feed"

\* match post.insert(&db).await: Ok(post) goes on to the page fetch, whatever
\* req.notify; Err, a unique violation or any other error, is logged and
\* continues with the next entry.
AfterInsert(res, notify) == IF res = "ok" THEN "enrich" ELSE "entry"

\* for entry in feed.entries / for item in channel.items: up to post.insert().
WorkerInsertPost(dbOk) ==
    /\ pc = "entry"
    /\ doc.entries # <<>>
    /\ LET url == EntryUrl(doc.fmt, Head(doc.entries))
           row == [id |-> nextPostId, feed_id |-> Head(feedsTodo).id,
                   url |-> url, thumbnail |-> "none"]
           ins == InsertPost(posts, row)
           res == IF dbOk THEN ins.res ELSE "error"
           next == AfterInsert(res, req.notify)
       IN IF url = NoLink
          THEN EndEntry /\ UNCHANGED <<posts, nextPostId, added, failed, faults, madeBy>>
          ELSE /\ IF dbOk
                  THEN UNCHANGED faults
                  ELSE faults < MaxInsertFaults /\ faults' = faults + 1
               /\ posts' = IF dbOk THEN ins.tbl ELSE posts
               /\ failed' = (failed \/ res = "error")
               /\ IF res = "ok"
                  THEN /\ nextPostId' = nextPostId + 1 /\ added' = added + 1
                       /\ madeBy' = madeBy \cup {[post |-> nextPostId, seq |-> req.seq,
                                                  notify |-> req.notify]}
                  ELSE UNCHANGED <<nextPostId, added, madeBy>>
               /\ IF next = "entry"
                  THEN EndEntry
                  ELSE /\ pc' = next
                       /\ post' = [id |-> nextPostId, url |-> url]
                       /\ attempt' = 0
                       /\ UNCHANGED <<doc, image, subsTodo, listed>>
    /\ UNCHANGED <<feeds, subs, nextFeedId, nextSubId, queue, ticks, timer, adds,
                   sending, replied, regs, req, feedsTodo, fetched, syncHist,
                   nextSeq, started, processing, panicAt, pushes, enriched, fnVars, gone, rereg, completed>>
    /\ lastRes' = "none"

\* The end of the loop over the entries: the next feed.
WorkerFeedDone ==
    /\ pc = "entry"
    /\ doc.entries = <<>>
    /\ prevSync' = [feed |-> Head(feedsTodo).id, doc |-> fetched, clean |-> ~failed]
    /\ feedsTodo' = Tail(feedsTodo)
    /\ doc' = NoDoc /\ fetched' = NoDoc /\ added' = 0 /\ failed' = FALSE
    /\ pc' = "fetch_feed"
    /\ UNCHANGED <<dbVars, idVars, queue, httpVars, replied, req, post, attempt, image, subsTodo, listed,
                   firstSync, nextSeq, started, processing, panicAt, pushes, enriched, madeBy, fnVars, gone, rereg, completed>>
    /\ lastRes' = "none"

RetryAlways(n) == TRUE

\* .retry(ExponentialBuilder::default()): after n retries a failed try is
\* retried while n is below max_times.
ShouldRetry(n) == n < MaxTimes

\* One try of fetch_page_content under .retry(ExponentialBuilder::default()),
\* then the og:image of the page fetched.
WorkerFetchPage(ok) ==
    /\ pc = "enrich"
    /\ IF ok
       THEN /\ image' = PageImage(post.url)
            /\ pc' = "update"
            /\ NoPanic
            /\ UNCHANGED <<req, feedsTodo, doc, post, attempt, subsTodo, listed, feedHist>>
       ELSE IF ShouldRetry(attempt)
       THEN /\ attempt' = attempt + 1
            /\ NoPanic
            /\ UNCHANGED <<pc, req, feedsTodo, doc, post, image, subsTodo, listed, feedHist>>
       ELSE Panic("fetch_page_content")
    /\ UNCHANGED <<dbVars, idVars, httpVars, replied, syncHist, nextSeq, started, pushes, enriched, madeBy, fnVars,
                   gone, rereg, completed>>

UpdateThumbnail(tbl, id, img) ==
    {IF r.id = id THEN [r EXCEPT !.thumbnail = img] ELSE r : r \in tbl}

NotifiesAlways(r) == TRUE

\* if req.notify: the fan-out follows the update for a request that asks for it.
Notifies(r) == r.notify

\* posts::ActiveModel { thumbnail: Set(image), .. }.update().await.unwrap()
WorkerUpdate(dbOk) ==
    /\ pc = "update"
    /\ IF ~dbOk
       THEN Panic("update") /\ UNCHANGED <<posts, enriched, madeBy>>
       ELSE /\ posts' = UpdateThumbnail(posts, post.id, image)
            /\ enriched' = enriched \cup {post.id}
            /\ UNCHANGED madeBy
            /\ IF Notifies(req)
               THEN pc' = "list_subs" /\ UNCHANGED <<doc, post, attempt, image, subsTodo, listed>>
               ELSE EndEntry
            /\ NoPanic
            /\ UNCHANGED <<req, feedsTodo, feedHist>>
    /\ UNCHANGED <<feeds, subs, idVars, httpVars, replied, syncHist, nextSeq, started, pushes, fnVars,
                   gone, rereg, completed>>

\* if req.notify: PushSubscriptions::find().all().await.unwrap()
WorkerListSubs(dbOk) ==
    /\ pc = "list_subs"
    /\ IF ~dbOk
       THEN Panic("list_subs")
       ELSE /\ IF subs = {}
               THEN EndEntry
               ELSE /\ subsTodo' = ById(subs)
                    /\ listed' = {s.id : s \in subs}
                    /\ pc' = "send"
                    /\ UNCHANGED <<doc, post, attempt, image>>
            /\ NoPanic
            /\ UNCHANGED <<req, feedsTodo, feedHist>>
    /\ UNCHANGED <<dbVars, idVars, httpVars, replied, syncHist, nextSeq, started, pushes, enriched, madeBy, fnVars,
                   gone, rereg, completed>>

\* The end of the fan-out's loop body for the head subscription.
NextSub ==
    IF Len(subsTodo) > 1
    THEN /\ subsTodo' = Tail(subsTodo)
         /\ pc' = "send"
         /\ UNCHANGED <<doc, post, attempt, image, listed>>
    ELSE EndEntry

AfterSendAlwaysDelete(res) == IF res # "ok" THEN "delete" ELSE "next"

\* match send_message(..).await: Ok(true), Ok(false) (410 Gone), Err(e).
AfterSend(res) == IF res = "gone" THEN "delete" ELSE "next"

\* push_client.send_message(&subscription, ..).await
WorkerSend(res) ==
    /\ pc = "send"
    /\ LET s == Head(subsTodo)
       IN /\ pushes' = pushes \cup {[post |-> post.id, sub |-> s.id, seq |-> req.seq]}
          /\ gone' = IF res = "gone"
                     THEN gone \cup {[id |-> s.id, endpoint |-> s.endpoint]}
                     ELSE gone
          /\ rereg' = IF res = "gone" THEN rereg \ {s.endpoint} ELSE rereg
          /\ lastRes' = res
    /\ IF AfterSend(res) = "delete"
       THEN pc' = "delete_sub" /\ UNCHANGED <<doc, post, attempt, image, subsTodo, listed>>
       ELSE NextSub
    /\ UNCHANGED <<dbVars, idVars, queue, httpVars, replied, req, feedsTodo, feedHist, syncHist,
                   nextSeq, started, processing, panicAt, completed, enriched, madeBy, fnVars>>

DeleteNothing(tbl, id) == tbl

DeleteById(tbl, id) == {r \in tbl : r.id # id}

\* PushSubscriptions::delete_by_id(subscription.id).exec().await.unwrap()
WorkerDeleteSub(dbOk) ==
    /\ pc = "delete_sub"
    /\ IF ~dbOk
       THEN Panic("delete_sub") /\ UNCHANGED subs
       ELSE /\ subs' = DeleteById(subs, Head(subsTodo).id)
            /\ NextSub
            /\ NoPanic
            /\ UNCHANGED <<req, feedsTodo, feedHist>>
    /\ UNCHANGED <<feeds, posts, idVars, httpVars, replied, syncHist, nextSeq, started, pushes, enriched, madeBy, fnVars,
                   gone, rereg, completed>>

\* ------------------------------------------------------------- specification
Next ==
    \/ TimerTick
    \/ \E url \in FeedUrls, res \in FetchFeedResults, dbOk \in BOOLEAN :
          AddFeedInsert(url, res, dbOk)
    \/ \E id \in sending : AddFeedSend(id)
    \/ \E e \in Endpoints, k \in Keys : CreatePushSubscription(e, k)
    \/ WorkerRecv
    \/ \E dbOk \in BOOLEAN : WorkerResolve(dbOk)
    \/ \E res \in FetchFeedResults : WorkerFetchFeed(res)
    \/ WorkerRequestDone
    \/ \E dbOk \in BOOLEAN : WorkerInsertPost(dbOk)
    \/ WorkerFeedDone
    \/ \E ok \in BOOLEAN : WorkerFetchPage(ok)
    \/ \E dbOk \in BOOLEAN : WorkerUpdate(dbOk)
    \/ \E dbOk \in BOOLEAN : WorkerListSubs(dbOk)
    \/ \E res \in {"ok", "gone", "err"} : WorkerSend(res)
    \/ \E dbOk \in BOOLEAN : WorkerDeleteSub(dbOk)

Spec == Init /\ [][Next]_vars

\* ------------------------------------------------------------- a later run
\* The process started again on the tables an earlier run left when its worker
\* ended in the page fetch of a post: feed fa and its post u1, stored with no
\* thumbnail, never updated and never notified.
Restarted ==
    /\ Booted
    /\ feeds = {[id |-> 1, url |-> "fa"]}
    /\ posts = {[id |-> 1, feed_id |-> 1, url |-> "u1", thumbnail |-> "none"]}
    /\ nextFeedId = 2 /\ nextPostId = 2
    /\ queue = <<>> /\ nextSeq = 1

\* A first run or a later one.
RestartInit == (Start \/ Restarted) /\ arg = NoArg /\ out = NoArg

RestartSpec == RestartInit /\ [][Next]_vars

\* ------------------------------------------------------------- fetch_feed on its own
\* What the two parsers may say of the bytes of a response: Ok with a document
\* or Err with one of the parser's errors, each parser on its own.
AtomDocs == {<<>>, <<AtomById>>, <<AtomByHtml, AtomById>>, <<AtomById, AtomByFirst, AtomByHtml>>}
RssDocs == {<<>>, <<[link |-> "u1"]>>, <<[link |-> NoLink]>>, <<[link |-> NoLink], [link |-> "u2"]>>}
AtomErrs == {"atom_xml", "atom_utf8", "atom_root", "atom_eof"}
RssErrs == {"rss_xml", "rss_utf8", "rss_root", "rss_eof"}

ParseInputs ==
    {[atomOk |-> a.ok, atom |-> a.doc, atomErr |-> a.err,
      rssOk |-> r.ok, rss |-> r.doc, rssErr |-> r.err] :
        a \in {[ok |-> TRUE, doc |-> d, err |-> "none"] : d \in AtomDocs}
              \cup {[ok |-> FALSE, doc |-> <<>>, err |-> e] : e \in AtomErrs},
        r \in {[ok |-> TRUE, doc |-> d, err |-> "none"] : d \in RssDocs}
              \cup {[ok |-> FALSE, doc |-> <<>>, err |-> e] : e \in RssErrs}}

ParseInit == Start /\ arg \in {<<b>> : b \in ParseInputs} /\ out = NoArg

\* fetch_feed from the bytes on: the match on the two read_from results.
ApplyParseFeed ==
    /\ out = NoArg
    /\ out' = <<ParseFeed(arg[1])>>
    /\ UNCHANGED <<dbVars, idVars, queue, httpVars, pc, localVars, feedHist, syncHist,
                   histVars, obsVars, arg>>

ParseNext == ApplyParseFeed

ParseSpec == ParseInit /\ [][ParseNext]_vars

\* ------------------------------------------------------------- content_url on its own
MaxLinks == 3

\* The href of the link at each place of an entry, all different.
Hrefs == <<"h1", "h2", "h3", "h4", "h5">>

\* rel (atom_syndication reads a link without rel as "alternate") and mime type
\* of a link.
LinkKinds ==
    [rel : {"alternate", "self"}, type : {"none", "text/html", "application/xml"}]

\* The lists of at most MaxLinks links.
LinkLists ==
    UNION {{[i \in 1..n |-> [rel |-> ks[i].rel, type |-> ks[i].type, href |-> Hrefs[i]]] :
               ks \in [1..n -> LinkKinds]} : n \in 0..MaxLinks}

LinkInputs == {[id |-> "eid", links |-> l] : l \in LinkLists}

LinkInit == Start /\ arg \in {<<e>> : e \in LinkInputs} /\ out = NoArg

\* let content_url = entry.links.iter().find(..).or_else(..)..unwrap_or(&entry.id)
ApplyContentUrl ==
    /\ out = NoArg
    /\ out' = <<ContentUrl(arg[1])>>
    /\ UNCHANGED <<dbVars, idVars, queue, httpVars, pc, localVars, feedHist, syncHist,
                   histVars, obsVars, arg>>

LinkNext == ApplyContentUrl

LinkSpec == LinkInit /\ [][LinkNext]_vars

\* ------------------------------------------------------------- the scope on its own
MaxRows == 3

\* The url of the Feed row of each id.
RowUrls == <<"fa", "fb", "fc", "fd", "fe", "ff">>

\* What the table feeds may hold when a request is resolved.
FeedTables == SUBSET {[id |-> i, url |-> RowUrls[i]] : i \in 1..MaxRows}

\* The request in the channel: All, or Feed(id) of a row that may be there or not.
ResolveRequests ==
    {TimerRequest(1)} \cup {AddFeedRequest(i, 1) : i \in 1..(MaxRows + 1)}

ResolveInit ==
    /\ Booted
    /\ feeds \in FeedTables /\ posts = {}
    /\ nextFeedId = MaxRows + 1 /\ nextPostId = 1
    /\ queue \in {<<r>> : r \in ResolveRequests} /\ nextSeq = 2
    /\ arg = NoArg /\ out = NoArg

\* The worker from recv to the feeds of the request, and back to recv when
\* there is none.
ResolveNext ==
    \/ WorkerRecv
    \/ \E dbOk \in BOOLEAN : WorkerResolve(dbOk)
    \/ WorkerRequestDone

ResolveSpec == ResolveInit /\ [][ResolveNext]_vars

\* ------------------------------------------------------------- properties
Working == pc \notin {"waiting", "dead"}

RowOf(id) == CHOOSE r \in posts : r.id = id

\* C1: requests are dequeued in the order they were sent (the timer's and
\* add_feed's alike), and none is dequeued twice: the numbers of the requests
\* dequeued are strictly increasing, and what is still queued was sent later.
FifoOrder ==
    /\ \A i, j \in 1..Len(started) : i < j => started[i] < started[j]
    /\ \A i \in 1..Len(started), k \in 1..Len(queue) : started[i] < queue[k].seq

\* Three requests were dequeued, a timer's and add_feed's among them.
FifoWitness == Len(started) = 3 /\ pc = "resolve" /\ req.scope = "Feed"

\* C2: at most one request is in the processing state; while the worker works,
\* it is the request dequeued last, and the worker is back at recv only with
\* nothing of a request left to do.
OneRequestAtATime ==
    /\ Cardinality(processing) <= 1
    /\ Working => processing = {req.seq} /\ req.seq = started[Len(started)]
    /\ ~Working => /\ processing = {} /\ req = NoReq
                   /\ feedsTodo = <<>> /\ doc.entries = <<>> /\ subsTodo = <<>>

\* A request waits in the queue while the worker is in the fan-out of another.
OneRequestWitness == pc = "send" /\ queue # <<>> /\ Cardinality(processing) = 1

\* C3: no push is sent for a post ingested by the first sync that processes
\* its feed (every feed of the model is created by add_feed).
BackfillNeverNotifies ==
    \A p \in pushes : p.seq # firstSync[RowOf(p.post).feed_id]

\* The feed sync at the end of its entries repeats the document of the last
\* feed sync completed, which was of the same feed.
RepeatedSync ==
    /\ pc = "entry" /\ doc.entries = <<>>
    /\ prevSync.feed = Head(feedsTodo).id
    /\ prevSync.doc = fetched

HeadConflictsWith(r) ==
    /\ pc = "entry" /\ doc.entries # <<>>
    /\ EntryUrl(doc.fmt, Head(doc.entries)) = r.url

\* C5: no two Post rows have the same url, and an insert whose url is stored
\* changes no row of posts.
PostUrlUnique ==
    /\ [](\A r1, r2 \in posts : r1.url = r2.url => r1 = r2)
    /\ [][\A r \in posts : HeadConflictsWith(r) => posts' = posts]_vars

\* Both u1 entries of an Atom document were skipped on a conflict with the row
\* another feed had inserted.
PostUrlWitness ==
    /\ pc = "entry" /\ fetched.fmt = "Atom" /\ Len(doc.entries) = 1
    /\ added = 0 /\ ~failed
    /\ \E r \in posts : r.url = "u1" /\ r.feed_id # Head(feedsTodo).id

\* C6: when fetch_feed fails for a feed of a request with further feeds to
\* sync, the worker drops that feed and goes on with the remaining ones.
FeedFailureIsolated ==
    [][\A res \in FetchFeedResults :
          (res.fmt = "Err" /\ Len(feedsTodo) > 1 /\ WorkerFetchFeed(res)) =>
              (pc' = "fetch_feed" /\ feedsTodo' = Tail(feedsTodo))]_vars

\* C7: when the last retry of the page fetch of post P fails, P stays stored
\* with no thumbnail and the worker goes on with the next entry.
EnrichmentIsolated ==
    [][(pc = "enrich" /\ attempt = MaxTimes /\ WorkerFetchPage(FALSE)) =>
          /\ \E r \in posts' : r.id = post.id /\ r.thumbnail = "none"
          /\ pc' = "entry"
          /\ doc' = [doc EXCEPT !.entries = Tail(@)]]_vars

\* C8: no failure ends run_sync_worker (the senders are never dropped, so the
\* queue is open throughout).
WorkerNeverEnds == pc # "dead"

\* C9: when a request has been processed to its end, no subscription that
\* answered 410 during it is stored, and neither is its endpoint unless it was
\* registered again after the 410.
GoneRemoved ==
    (pc = "waiting" /\ completed) =>
        \A g \in gone :
            /\ \A s \in subs : s.id # g.id
            /\ g.endpoint \notin rereg => \A s \in subs : s.endpoint # g.endpoint

\* A request during which a subscription answered 410 was processed to its end,
\* and the endpoint was not registered again.
GoneWitness == pc = "waiting" /\ completed /\ gone # {} /\ rereg = {}

\* C10: a send that fails (not a 410) changes no row of push_subscriptions, and
\* the worker goes on with the next subscription of the fan-out or, after the
\* last one, with the next entry.
DeliveryErrorKeeps ==
    [][(pushes' # pushes /\ lastRes' = "err") =>
          /\ subs' = subs
          /\ IF Len(subsTodo) > 1
             THEN pc' = "send" /\ subsTodo' = Tail(subsTodo) /\ post' = post
             ELSE pc' = "entry" /\ doc' = [doc EXCEPT !.entries = Tail(@)]]_vars

\* A send to the first of two subscriptions failed: both are stored and the
\* worker is at the send to the second.
DeliveryErrorWitness ==
    /\ pc = "send" /\ lastRes = "err"
    /\ Len(subsTodo) = 1 /\ Cardinality(subs) = 2
    /\ \E p \in pushes : p.post = post.id

\* The sends made so far for the post of the fan-out in progress.
SentFor(id, all) == {p.sub : p \in {q \in all : q.post = id}}

\* C11: the fan-out of a post reads the subscriptions stored when it starts,
\* and when the worker leaves the fan-out a send has been attempted to every
\* one of them (and to no other).
FanOutReachesAll ==
    [][/\ (pc = "list_subs" /\ pc' = "send") =>
              {subsTodo'[i].id : i \in 1..Len(subsTodo')} = {s.id : s \in subs}
       /\ (pc \in {"send", "delete_sub"} /\ pc' \notin {"send", "delete_sub"}) =>
              SentFor(post.id, pushes') = listed]_vars

\* C12: the timer task never ends, and every iteration of its loop, the first
\* one included, enqueues an All/notify=true request behind what is queued.
TimerKeepsFiring ==
    [][/\ timer' = "run"
       /\ ticks' # ticks => queue' = Append(queue, TimerRequest(nextSeq))]_vars

\* C13: add_feed's send is never blocked, whatever the worker is doing, and
\* every add_feed that inserted its Feed row and is past the send has answered
\* with the row, whether the worker was idle, busy or ended.
FireAndForget ==
    /\ \A id \in sending : ENABLED AddFeedSend(id)
    /\ \A f \in feeds : f.id \in sending \/ f.id \in replied

\* Two registrations were answered, the second after the worker had ended on
\* the request of the first: one request only was ever enqueued.
FireAndForgetWitness ==
    pc = "dead" /\ Cardinality(replied) = 2 /\ sending = {} /\ nextSeq = 2

\* C14: an add_feed fails exactly when its fetch/parse or its insert fails, and
\* then adds no Feed row and enqueues nothing; one that succeeds adds exactly
\* its Feed row and then enqueues exactly one SingleFeed(id)/notify=false
\* request, the row being stored when the request is enqueued.
RegistrationEnqueuesOnce ==
    [][/\ \A url \in FeedUrls, res \in FetchFeedResults, dbOk \in BOOLEAN :
              AddFeedInsert(url, res, dbOk) =>
                  /\ queue' = queue
                  /\ IF res.fmt = "Err" \/ ~dbOk \/ (\E f \in feeds : f.url = url)
                     THEN feeds' = feeds /\ sending' = sending
                     ELSE /\ feeds' = feeds \cup {[id |-> nextFeedId, url |-> url]}
                          /\ sending' = sending \cup {nextFeedId}
       /\ \A id \in sending :
              AddFeedSend(id) =>
                  /\ \E f \in feeds : f.id = id
                  /\ queue' = Append(queue, AddFeedRequest(id, nextSeq))]_vars

\* C15: no two PushSubscription rows have the same endpoint; a registration
\* of a stored endpoint changes that row only, to the credentials registered
\* and under the id it had, and a registration of a new endpoint adds exactly
\* one row, with that endpoint and those credentials.
EndpointUnique ==
    /\ [](\A s1, s2 \in subs : s1.endpoint = s2.endpoint => s1 = s2)
    /\ [][\A e \in Endpoints, k \in Keys :
              CreatePushSubscription(e, k) =>
                  IF \E r \in subs : r.endpoint = e
                  THEN \E r \in subs :
                          /\ r.endpoint = e
                          /\ subs' = (subs \ {r}) \cup {SubRow(r.id, e, k)}
                  ELSE /\ Cardinality(subs') = Cardinality(subs) + 1
                       /\ \E id \in 1..(MaxRegs + 1) :
                              /\ \A r \in subs : r.id # id
                              /\ subs' = subs \cup {SubRow(id, e, k)}]_vars

\* Endpoint e1 was registered twice, the second time with other credentials:
\* one row, under the first id, with the second credentials.
EndpointWitness ==
    /\ regs = 2 /\ nextSubId = 2
    /\ subs = {SubRow(1, "e1", [auth |-> "a2", p256dh |-> "p2"])}

\* C16: bytes the Atom parser reads yield Feed::Atom with what it read; bytes
\* it rejects and the RSS parser reads yield Feed::Rss with what that read;
\* bytes both reject yield FeedParseError with the error of each parser; there
\* is no other result.
FormatFallback ==
    out # NoArg =>
        LET b == arg[1]
            r == out[1]
        IN /\ r.fmt \in {"Atom", "Rss", "Err"}
           /\ b.atomOk => r.fmt = "Atom" /\ r.entries = b.atom
           /\ (~b.atomOk /\ b.rssOk) => r.fmt = "Rss" /\ r.entries = b.rss
           /\ (~b.atomOk /\ ~b.rssOk) =>
                  /\ r.fmt = "Err" /\ r.why = "parse"
                  /\ r.atomErr = b.atomErr /\ r.rssErr = b.rssErr

\* Bytes the Atom parser rejected and the RSS parser read, with two items,
\* came out as Feed::Rss.
FormatFallbackWitness ==
    /\ out # NoArg
    /\ ~arg[1].atomOk /\ arg[1].rssOk /\ Len(arg[1].rss) = 2
    /\ out[1].fmt = "Rss"

\* Link i of list l is the first one of l that is "alternate" (and, with html,
\* of type text/html).
FirstAlternate(l, i, html) ==
    LET Is(j) == l[j].rel = "alternate" /\ (html => l[j].type = "text/html")
    IN i \in 1..Len(l) /\ Is(i) /\ \A j \in 1..(i - 1) : ~Is(j)

\* C17: the post url of an Atom entry is the href of its first link with rel
\* "alternate" and type text/html; without such a link, of its first link with
\* rel "alternate"; without one, of its first link; without links, entry.id.
LinkPriority ==
    out # NoArg =>
        LET l == arg[1].links
            u == out[1]
        IN IF \E i \in 1..Len(l) : FirstAlternate(l, i, TRUE)
           THEN \E i \in 1..Len(l) : FirstAlternate(l, i, TRUE) /\ u = l[i].href
           ELSE IF \E i \in 1..Len(l) : FirstAlternate(l, i, FALSE)
           THEN \E i \in 1..Len(l) : FirstAlternate(l, i, FALSE) /\ u = l[i].href
           ELSE IF Len(l) > 0 THEN u = l[1].href
           ELSE u = arg[1].id

\* An entry whose first link is a plain "alternate" and whose third is the
\* first "alternate" of type text/html resolved to the third.
LinkPriorityWitness ==
    /\ out = <<"h3">>
    /\ Len(arg[1].links) = 3
    /\ FirstAlternate(arg[1].links, 1, FALSE)
    /\ FirstAlternate(arg[1].links, 3, TRUE)

\* C18: while the head entry's url is stored, no step changes a Post row,
\* starts a page fetch or makes a send, and the worker's step drops the entry;
\* no step ever removes a Post row or changes its id, url or feed_id, and a
\* thumbnail changes only in the update of the post just inserted.
ReingestIsNoOp ==
    [][/\ \A r \in posts :
              HeadConflictsWith(r) =>
                  /\ posts' = posts /\ pushes' = pushes /\ enriched' = enriched
                  /\ pc' = "entry"
                  /\ doc' = doc \/ doc' = [doc EXCEPT !.entries = Tail(@)]
       /\ \A r \in posts :
              \E r2 \in posts' :
                  /\ r2.id = r.id /\ r2.url = r.url /\ r2.feed_id = r.feed_id
                  /\ r2.thumbnail # r.thumbnail => pc = "update" /\ r.id = post.id]_vars

\* The first entry of an Atom document was dropped on the conflict with a row
\* that has its thumbnail, and the row has it still.
ReingestWitness ==
    /\ pc = "entry" /\ fetched.fmt = "Atom" /\ Len(doc.entries) = 2
    /\ added = 0 /\ ~failed
    /\ \E r \in posts : r.url = "u1" /\ r.thumbnail = "img" /\ r.id \in enriched

\* The entries left are the last k entries of the document fetched.
InDocumentOrder ==
    \E k \in 0..Len(fetched.entries) :
        doc.entries = SubSeq(fetched.entries, Len(fetched.entries) - k + 1,
                             Len(fetched.entries))

\* C19: every send is for a post whose page fetch and thumbnail update have
\* completed, the fan-out of a post starts only after them, and the entries of
\* a document are handled from the first to the last, the post in hand being
\* the one of the first entry left.
EnrichBeforeNotify ==
    /\ \A p \in pushes : p.post \in enriched
    /\ pc \in {"list_subs", "send", "delete_sub"} => post.id \in enriched
    /\ pc \in {"entry", "enrich", "update", "list_subs", "send", "delete_sub"} =>
           InDocumentOrder
    /\ pc \in {"enrich", "update", "list_subs", "send", "delete_sub"} =>
           post.url = EntryUrl(doc.fmt, Head(doc.entries))

\* The worker is at the send for the second post of an Atom document, after
\* two retries of its page fetch and the sends for the first post.
EnrichBeforeNotifyWitness ==
    /\ pc = "send" /\ attempt = 2 /\ post.url = "u2"
    /\ fetched.fmt = "Atom" /\ Len(doc.entries) = 1
    /\ \E p \in pushes : p.post # post.id /\ p.seq = req.seq

\* C20: an insert that storage fails without a url conflict adds no Post row,
\* starts no page fetch and makes no send, and the worker goes on with the
\* next entry of the same feed.
InsertErrorSkipsEntry ==
    [][faults' # faults =>
          /\ posts' = posts /\ pushes' = pushes /\ enriched' = enriched
          /\ pc' = "entry"
          /\ doc' = [doc EXCEPT !.entries = Tail(@)]
          /\ feedsTodo' = feedsTodo]_vars

\* The insert of the first entry of an Atom document failed and the two
\* entries after it were handled: the second was inserted.
InsertErrorWitness ==
    /\ pc = "entry" /\ fetched.fmt = "Atom" /\ doc.entries = <<>>
    /\ failed /\ added = 1 /\ faults = 1
    /\ \E r \in posts : r.url = "u1" /\ r.id \in enriched

\* C21: a request whose queries succeed resolves to every Feed row stored at
\* that moment (All) or to the row of its id, if stored, and to nothing
\* otherwise (Feed(id)), each row once and without a failure; a request that
\* resolves to nothing is done and the worker is back at recv.
ScopeResolution ==
    [][/\ (pc = "resolve" /\ pc' = "fetch_feed") =>
              LET got == {feedsTodo'[i] : i \in 1..Len(feedsTodo')}
              IN /\ Len(feedsTodo') = Cardinality(got)
                 /\ got = IF req.scope = "All" THEN feeds
                          ELSE {f \in feeds : f.id = req.feed}
                 /\ panicAt' = "none"
       /\ (pc = "fetch_feed" /\ feedsTodo = <<>> /\ pc' # pc) =>
              pc' = "waiting" /\ panicAt' = "none" /\ completed' = TRUE]_vars

\* A Feed(id) request whose row is not among the two rows stored was
\* processed to its end.
ScopeResolutionWitness ==
    /\ pc = "waiting" /\ completed /\ panicAt = "none"
    /\ Cardinality(feeds) = 2 /\ started = <<1>>

\* C22: a query, update or delete of the worker that storage fails leaves the
\* worker running and the channel as it is, so that what the timer enqueues
\* later is still received.
StorageFailureSurvived ==
    [][(\/ WorkerResolve(FALSE) \/ WorkerUpdate(FALSE)
        \/ WorkerListSubs(FALSE) \/ WorkerDeleteSub(FALSE)) =>
           (pc' # "dead" /\ queue' = queue)]_vars

\* C23: the page fetch of a post is retried at most MaxTimes times, one at a
\* time, and the try that fails after the last retry ends the enrichment with
\* the failure; a fetch that succeeds ends the fetching, the image is what the
\* page holds (none without an og:image tag) and the update stores it as the
\* post's thumbnail.
BoundedRetry ==
    /\ [](attempt \in 0..MaxTimes)
    /\ [](pc = "update" => image = PageImage(post.url))
    /\ [][/\ (pc = "enrich" /\ pc' = "enrich") =>
                 (attempt' = attempt \/ attempt' = attempt + 1)
          /\ (pc = "enrich" /\ attempt = MaxTimes /\ pc' # pc) =>
                 \/ pc' = "update"
                 \/ pc' = "dead" /\ panicAt' = "fetch_page_content"
          /\ (pc = "update" /\ pc' # pc) =>
                 /\ pc' # "enrich"
                 /\ (pc' # "dead" =>
                        \E r \in posts' : r.id = post.id /\ r.thumbnail = image)]_vars

\* The page of u2, fetched at the last retry, holds no og:image tag: the post
\* is stored with no thumbnail and the worker is past the enrichment.
BoundedRetryWitness ==
    /\ pc = "list_subs" /\ attempt = MaxTimes /\ post.url = "u2"
    /\ post.id \in enriched
    /\ \E r \in posts : r.id = post.id /\ r.thumbnail = "none"

\* C24: every send is for a post the request being processed has inserted,
\* and that request has notify = true; no send is made twice to a
\* subscription for a post. So a post of a notify=false request, or one left
\* by a run that ended before its fan-out, is in no send of a later request.
NotifyOnlyByCreator ==
    /\ [](\A p \in pushes :
              \E m \in madeBy : m.post = p.post /\ m.seq = p.seq /\ m.notify)
    /\ [][\A res \in {"ok", "gone", "err"} :
              WorkerSend(res) =>
                  /\ req.notify
                  /\ [post |-> post.id, seq |-> req.seq, notify |-> TRUE] \in madeBy
                  /\ \A p \in pushes :
                         ~(p.post = post.id /\ p.sub = Head(subsTodo).id)]_vars

\* Post 1, which the earlier run left before its fan-out, is in no send, while
\* a later sync of its feed was completed and made a send for a post it
\* inserted for that feed.
NotifyOnlyByCreatorWitness ==
    /\ \A m \in madeBy : m.post # 1
    /\ \E r \in posts : r.id = 1
    /\ \A p \in pushes : p.post # 1
    /\ \E p \in pushes : \E r \in posts : r.id = p.post /\ r.feed_id = 1
    /\ prevSync.feed = 1 /\ pc = "fetch_feed"

\* C25: the page fetch starts only for the post the step has just inserted,
\* under a url not stored before; a post keeps no thumbnail unless its own
\* update has completed, and no step changes a stored row other than the post
\* in hand. So a post whose enrichment failed or was cut short stays without
\* thumbnail through every later sync.
EnrichOnce ==
    /\ [](\A r \in posts : r.thumbnail # "none" => r.id \in enriched)
    /\ [][/\ (pc # "enrich" /\ pc' = "enrich") =>
                  /\ post'.url \notin {r.url : r \in posts}
                  /\ \E r \in posts' : r.id = post'.id /\ r.url = post'.url
           /\ \A r \in posts : r.id # post.id => r \in posts']_vars

\* Post 1 of url u1, whose page has an image, was left without thumbnail by
\* the earlier run; a later sync of its feed, from an Atom document that lists
\* u1, was completed and enriched another post: post 1 has no thumbnail still.
EnrichOnceWitness ==
    /\ \E r \in posts : r.id = 1 /\ r.url = "u1" /\ r.thumbnail = "none"
    /\ 1 \notin enriched
    /\ prevSync.feed = 1 /\ prevSync.doc.fmt = "Atom"
    /\ \E r \in posts : r.feed_id = 1 /\ r.id \in enriched

====
